---- MODULE Spec2Model ----
(***************************************************************************)
(* Model of scripts/load_contracts.py: the keyword loop of main with its   *)
(* cross-keyword deduplication, fetch_contracts and its failure handling,  *)
(* transform_contracts, the CSV artifact and the Snowflake load attempt.   *)
(***************************************************************************)
EXTENDS Integers, Sequences, FiniteSets, TLC

(* ---------------------------- bounds ----------------------------------- *)

\* number of entries of SEARCH_KEYWORDS that a modelled run iterates over
NumKeywords == 2

\* largest length of a "results" array in a modelled response
MaxBatch == 2

(* ------------------------- JSON / Python values ------------------------ *)

None == [t |-> "null", s |-> "", n |-> 0]

Str(x) == [t |-> "str", s |-> x, n |-> 0]

Num(x) == [t |-> "num", s |-> "", n |-> x]

\* Python truthiness of a decoded JSON scalar: None, "" and 0 are falsy
Truthy(v) ==
    CASE v.t = "null" -> FALSE
      [] v.t = "str"  -> v.s # ""
      [] v.t = "num"  -> v.n # 0
      [] OTHER        -> TRUE

\* dict.get(key): the value under key, None when the key is missing
get(r, key) == IF key \in DOMAIN r THEN r[key] ELSE None

\* Python's "x or 0"
OrZero(v) == IF Truthy(v) THEN v ELSE Num(0)

(* ------------------------------ constants ------------------------------ *)

AllKeywords ==
    << "data analytics", "artificial intelligence", "machine learning",
       "data warehouse", "data lake", "cloud computing", "big data",
       "data platform", "data engineering", "business intelligence",
       "Palantir", "database", "ETL", "data integration" >>

SEARCH_KEYWORDS == SubSeq(AllKeywords, 1, NumKeywords)

csv_path == "/tmp/govcontracts_data.csv"

(* ------------------------- what the API may send ----------------------- *)

\* marks a key that the object does not carry (not a JSON value)
Missing == [t |-> "missing", s |-> "", n |-> 0]

\* an award dict, as decoded from one element of "results"; a field given as
\* Missing is a key the dict does not have
Award(gid, aid, amt) ==
    LET vals == ("generated_internal_id" :> gid) @@ ("Award ID" :> aid)
                @@ ("Award Amount" :> amt)
    IN  [k \in {x \in DOMAIN vals : vals[x] # Missing} |-> vals[k]]

\* an element of "results" that is not a field-keyed object (a JSON string)
BadElem == Str("not-an-object")

IsObject(e) == "t" \notin DOMAIN e

\* the awards the modelled API returns to the keyword loop: one award under
\* two different payloads, a second award, and a record without identifier
Awards ==
    { Award(Str("A"), Str("X"), Num(5)),
      Award(Str("A"), Str("Y"), Num(-5)),
      Award(Str("B"), Str("X"), Missing),
      Award(Missing, Str("Z"), Num(0)) }

SeqsUpTo(S, n) == UNION { [1..k -> S] : k \in 0..n }

FailKinds == {"network", "timeout", "status", "undecodable"}

\* every response one POST can get: a failure raised inside the try block,
\* or a decoded JSON document in one of the modelled shapes
\* the "results" arrays of the modelled responses: an array lists an element
\* once, but two of its elements may carry the same generated identifier
Batches ==
    { b \in SeqsUpTo(Awards \cup {BadElem}, MaxBatch) :
        \A i, j \in 1..Len(b) : i # j => b[i] # b[j] }

\* "results_array" is an array of award objects, "results_bad_elements" an
\* array with at least one element that is not an object
Responses ==
    { [kind |-> k, results |-> <<>>] : k \in FailKinds }
    \cup { [kind |-> k, results |-> <<>>] :
             k \in {"not_object", "results_absent", "results_null", "results_number"} }
    \cup { [kind |-> IF \E i \in 1..Len(b) : b[i] = BadElem
                     THEN "results_bad_elements" ELSE "results_array",
            results |-> b] : b \in Batches }

(* ------------------------------ the state ------------------------------ *)

VARIABLES
    pc,             \* position of main
    idx,            \* index in SEARCH_KEYWORDS of the keyword processed next
    all_contracts,  \* main: all_contracts
    seen_ids,       \* main: seen_ids
    requests,       \* per keyword, the number of POSTs issued for it
    fetched,        \* concatenation of every batch fetch_contracts returned
    iters,          \* per keyword processed: response kind, found and new counts
    df,             \* main: df, the normalized table
    csv,            \* the file at csv_path
    conn,           \* the Snowflake connection
    loaded,         \* the table handed to write_pandas
    log             \* the lines printed after the keyword loop

vars == << pc, idx, all_contracts, seen_ids, requests, fetched, iters, df, csv,
           conn, loaded, log >>

NoTable == [made |-> FALSE, rows |-> <<>>]

Table(rows) == [made |-> TRUE, rows |-> rows]

Line(text, arg) == [text |-> text, arg |-> arg]

(* --------------------------- fetch_contracts --------------------------- *)

\* fetch_contracts whose except branch lets the exception out
fetch_contracts_reraise(resp) ==
    CASE resp.kind \in FailKinds \cup {"not_object"} ->
            [raised |-> TRUE, t |-> "list", items |-> <<>>, posts |-> 1]
      [] resp.kind = "results_absent" ->
            [raised |-> FALSE, t |-> "list", items |-> <<>>, posts |-> 1]
      [] resp.kind = "results_null" ->
            [raised |-> FALSE, t |-> "none", items |-> <<>>, posts |-> 1]
      [] resp.kind = "results_number" ->
            [raised |-> FALSE, t |-> "num", items |-> <<>>, posts |-> 1]
      [] OTHER ->
            [raised |-> FALSE, t |-> "list", items |-> resp.results, posts |-> 1]

\* the value fetch_contracts returns to main for a response, with the number
\* of POSTs it issued; raised tells whether an exception leaves the function
fetch_contracts(resp) ==
    CASE resp.kind \in FailKinds ->
            \* post / raise_for_status / json raised: except branch
            [raised |-> FALSE, t |-> "list", items |-> <<>>, posts |-> 1]
      [] resp.kind = "not_object" ->
            \* data.get raises AttributeError inside the try: except branch
            [raised |-> FALSE, t |-> "list", items |-> <<>>, posts |-> 1]
      [] resp.kind = "results_absent" ->
            [raised |-> FALSE, t |-> "list", items |-> <<>>, posts |-> 1]
      [] resp.kind = "results_null" ->
            [raised |-> FALSE, t |-> "none", items |-> <<>>, posts |-> 1]
      [] resp.kind = "results_number" ->
            [raised |-> FALSE, t |-> "num", items |-> <<>>, posts |-> 1]
      [] OTHER ->
            [raised |-> FALSE, t |-> "list", items |-> resp.results, posts |-> 1]

(* ------------------------- main: the keyword loop ---------------------- *)

\* lines 142-147: the inner loop over results from element i on; raised when
\* r.get fails on an element that is not a dict
RECURSIVE Dedup(_, _, _, _)
Dedup(results, i, seen, new_results) ==
    IF i > Len(results)
    THEN [raised |-> FALSE, seen |-> seen, new_results |-> new_results]
    ELSE IF ~IsObject(results[i])
    THEN [raised |-> TRUE, seen |-> seen, new_results |-> new_results]
    ELSE LET gen_id == get(results[i], "generated_internal_id")
         IN  IF Truthy(gen_id) /\ gen_id \notin seen
             THEN Dedup(results, i + 1, seen \cup {gen_id},
                        Append(new_results, results[i]))
             ELSE Dedup(results, i + 1, seen, new_results)

\* the aggregation with all_contracts = new_results in place of extend
Aggregate_assign(results, seen, contracts) ==
    LET d == Dedup(results, 1, seen, <<>>)
    IN  [raised |-> d.raised, seen |-> d.seen,
         new_results |-> d.new_results,
         contracts |-> IF d.raised THEN contracts ELSE d.new_results]

\* the aggregation with seen_ids created anew for every keyword
Aggregate_seen_reset(results, seen, contracts) ==
    LET d == Dedup(results, 1, {}, <<>>)
    IN  [raised |-> d.raised, seen |-> seen \cup d.seen,
         new_results |-> d.new_results,
         contracts |-> IF d.raised THEN contracts ELSE contracts \o d.new_results]

\* the aggregation with the extend indented into the inner loop: the growing
\* new_results is appended after every element
RECURSIVE ExtendEachStep(_, _, _, _, _)
ExtendEachStep(results, i, seen, new_results, contracts) ==
    IF i > Len(results)
    THEN [raised |-> FALSE, seen |-> seen, new_results |-> new_results,
          contracts |-> contracts]
    ELSE IF ~IsObject(results[i])
    THEN [raised |-> TRUE, seen |-> seen, new_results |-> new_results,
          contracts |-> contracts]
    ELSE LET gen_id == get(results[i], "generated_internal_id")
             keep == Truthy(gen_id) /\ gen_id \notin seen
             new2 == IF keep THEN Append(new_results, results[i]) ELSE new_results
         IN  ExtendEachStep(results, i + 1,
                            IF keep THEN seen \cup {gen_id} ELSE seen,
                            new2, contracts \o new2)

Aggregate_extend_in_loop(results, seen, contracts) ==
    ExtendEachStep(results, 1, seen, <<>>, contracts)

\* lines 142-149 for one batch: the new seen_ids and all_contracts
Aggregate(results, seen, contracts) ==
    LET d == Dedup(results, 1, seen, <<>>)
    IN  [raised |-> d.raised, seen |-> d.seen,
         new_results |-> d.new_results,
         contracts |-> IF d.raised THEN contracts ELSE contracts \o d.new_results]

\* one iteration of "for keyword in SEARCH_KEYWORDS" (lines 137-150)
KeywordIteration ==
    /\ pc = "loop"
    /\ idx <= Len(SEARCH_KEYWORDS)
    /\ \E resp \in Responses :
        LET results == fetch_contracts(resp)
            agg == Aggregate(results.items, seen_ids, all_contracts)
        IN  /\ requests' = [requests EXCEPT ![idx] = @ + results.posts]
            /\ IF results.raised \/ results.t # "list" \/ agg.raised
               THEN \* uncaught exception in main: the process dies
                    /\ pc' = "crashed"
                    /\ seen_ids' = IF results.raised \/ results.t # "list"
                                   THEN seen_ids ELSE agg.seen
                    /\ iters' = Append(iters, [kind |-> resp.kind, found |-> 0, new |-> 0])
                    /\ UNCHANGED << idx, all_contracts, fetched >>
               ELSE /\ seen_ids' = agg.seen
                    /\ all_contracts' = agg.contracts
                    /\ fetched' = fetched \o results.items
                    /\ iters' = Append(iters, [kind |-> resp.kind,
                                                found |-> Len(results.items),
                                                new |-> Len(agg.new_results)])
                    /\ idx' = idx + 1
                    /\ pc' = IF idx = Len(SEARCH_KEYWORDS) THEN "summary" ELSE "loop"
    /\ UNCHANGED << df, csv, conn, loaded, log >>

\* the summary without the early return
Summary_no_return ==
    /\ pc = "summary"
    /\ log' = IF all_contracts = <<>>
              THEN Append(log, Line("No contracts found!", "")) ELSE log
    /\ pc' = "transform"
    /\ UNCHANGED << idx, all_contracts, seen_ids, requests, fetched, iters, df,
                    csv, conn, loaded >>

\* lines 152-157: the total, and the early return on an empty aggregate
Summary ==
    /\ pc = "summary"
    /\ IF all_contracts = <<>>
       THEN /\ log' = Append(log, Line("No contracts found!", ""))
            /\ pc' = "done"
       ELSE /\ log' = log
            /\ pc' = "transform"
    /\ UNCHANGED << idx, all_contracts, seen_ids, requests, fetched, iters, df,
                    csv, conn, loaded >>

(* -------------------------- transform_contracts ------------------------ *)

\* the row without the "or 0" default on the amount
Row_no_default(r) ==
    [ AWARD_ID              |-> get(r, "Award ID"),
      GENERATED_INTERNAL_ID |-> get(r, "generated_internal_id"),
      AWARD_AMOUNT          |-> get(r, "Award Amount") ]

\* lines 78-92: the row built from one award (the columns the claims read)
Row(r) ==
    [ AWARD_ID              |-> get(r, "Award ID"),
      GENERATED_INTERNAL_ID |-> get(r, "generated_internal_id"),
      AWARD_AMOUNT          |-> OrZero(get(r, "Award Amount")) ]

\* DataFrame.drop_duplicates(subset=["GENERATED_INTERNAL_ID"]): keeps the
\* first row of every identifier, in order
RECURSIVE drop_duplicates(_, _, _)
drop_duplicates(rows, i, kept) ==
    IF i > Len(rows) THEN kept
    ELSE IF \E j \in 1..Len(kept) :
                kept[j].GENERATED_INTERNAL_ID = rows[i].GENERATED_INTERNAL_ID
         THEN drop_duplicates(rows, i + 1, kept)
         ELSE drop_duplicates(rows, i + 1, Append(kept, rows[i]))

\* the transformation that fills GENERATED_INTERNAL_ID from "Award ID" and
\* throws the result of drop_duplicates away
transform_contracts_award_id(results) ==
    [i \in 1..Len(results) |->
        [ AWARD_ID              |-> get(results[i], "Award ID"),
          GENERATED_INTERNAL_ID |-> get(results[i], "Award ID"),
          AWARD_AMOUNT          |-> OrZero(get(results[i], "Award Amount")) ]]

transform_contracts(results) ==
    drop_duplicates([i \in 1..Len(results) |-> Row(results[i])], 1, <<>>)

\* line 160
Transform ==
    /\ pc = "transform"
    /\ df' = Table(transform_contracts(all_contracts))
    /\ pc' = "save"
    /\ UNCHANGED << idx, all_contracts, seen_ids, requests, fetched, iters, csv,
                    conn, loaded, log >>

(* ------------------------------- delivery ------------------------------ *)

\* the artifact written from df.head(0): the header without the rows
SaveCsv_header_only ==
    /\ pc = "save"
    /\ csv' = Table(<<>>)
    /\ log' = Append(log, Line("Saved to: ", csv_path))
    /\ pc' = "connect"
    /\ UNCHANGED << idx, all_contracts, seen_ids, requests, fetched, iters, df,
                    conn, loaded >>

\* lines 164-166: df.to_csv(csv_path)
SaveCsv ==
    /\ pc = "save"
    /\ csv' = Table(df.rows)
    /\ log' = Append(log, Line("Saved to: ", csv_path))
    /\ pc' = "connect"
    /\ UNCHANGED << idx, all_contracts, seen_ids, requests, fetched, iters, df,
                    conn, loaded >>

\* lines 176-179: the except branch of the load attempt; line 179 is a plain
\* string, so its braces are printed as they are
ExceptLines ==
    << Line("Error loading to Snowflake: ", "e"),
       Line("Data saved to CSV: ", csv_path),
       Line("You can manually upload using: PUT file://{csv_path} @CONTRACT_DATA_STAGE", "") >>

\* line 171: connect_snowflake returns a connection or raises
Connect ==
    /\ pc = "connect"
    /\ \/ /\ conn' = "open"
          /\ pc' = "load"
          /\ log' = log
       \/ /\ conn' = "failed"
          /\ pc' = "done"
          /\ log' = log \o ExceptLines
    /\ UNCHANGED << idx, all_contracts, seen_ids, requests, fetched, iters, df,
                    csv, loaded >>

\* lines 173-174: write_pandas returns or raises
Load ==
    /\ pc = "load"
    /\ loaded' = Table(df.rows)
    /\ \/ /\ pc' = "close"
          /\ log' = Append(log, Line("Successfully loaded rows", ""))
       \/ /\ pc' = "done"
          /\ log' = log \o ExceptLines
    /\ UNCHANGED << idx, all_contracts, seen_ids, requests, fetched, iters, df,
                    csv, conn >>

\* line 175
Close ==
    /\ pc = "close"
    /\ conn' = "closed"
    /\ pc' = "done"
    /\ UNCHANGED << idx, all_contracts, seen_ids, requests, fetched, iters, df,
                    csv, loaded, log >>

(* ---------------------------- specification ---------------------------- *)

Init ==
    /\ pc = "loop"
    /\ idx = 1
    /\ all_contracts = <<>>
    /\ seen_ids = {}
    /\ requests = [k \in 1..Len(SEARCH_KEYWORDS) |-> 0]
    /\ fetched = <<>>
    /\ iters = <<>>
    /\ df = NoTable
    /\ csv = NoTable
    /\ conn = "none"
    /\ loaded = NoTable
    /\ log = <<>>

Next ==
    \/ KeywordIteration
    \/ Summary
    \/ Transform
    \/ SaveCsv
    \/ Connect
    \/ Load
    \/ Close

Spec == Init /\ [][Next]_vars

TypeOK ==
    /\ pc \in {"loop", "summary", "transform", "save", "connect", "load",
               "close", "done", "crashed"}
    /\ idx \in 1..(Len(SEARCH_KEYWORDS) + 1)
    /\ conn \in {"none", "failed", "open", "closed"}

(* ---------------- transform_contracts on its own inputs ---------------- *)

\* the raw 'Award Amount' values an award may carry: key absent, null, zero,
\* the falsy empty string, a positive and a negative number
RawAmounts == { Missing, None, Num(0), Str(""), Num(5), Num(-5) }

NormAwards ==
    { Award(g, Str("X"), a) : g \in {Str("A"), Str("B")}, a \in RawAmounts }

\* what the keyword loop can hand to transform_contracts: a non-empty sequence
\* of awards with pairwise distinct, truthy identifiers
NormInputs ==
    { s \in SeqsUpTo(NormAwards, Cardinality({Str("A"), Str("B")})) :
        /\ s # <<>>
        /\ \A i, j \in 1..Len(s) :
              i # j => get(s[i], "generated_internal_id")
                       # get(s[j], "generated_internal_id") }

\* main at line 160, the first keyword having returned the batch and every
\* later keyword an empty one
InitNorm ==
    /\ pc = "transform"
    /\ idx = Len(SEARCH_KEYWORDS) + 1
    /\ all_contracts \in NormInputs
    /\ seen_ids = { get(all_contracts[i], "generated_internal_id") :
                      i \in 1..Len(all_contracts) }
    /\ requests = [k \in 1..Len(SEARCH_KEYWORDS) |-> 1]
    /\ fetched = all_contracts
    /\ iters = [k \in 1..Len(SEARCH_KEYWORDS) |->
                  IF k = 1
                  THEN [kind |-> "results_array", found |-> Len(all_contracts),
                        new |-> Len(all_contracts)]
                  ELSE [kind |-> "results_array", found |-> 0, new |-> 0]]
    /\ df = NoTable
    /\ csv = NoTable
    /\ conn = "none"
    /\ loaded = NoTable
    /\ log = <<>>

NextNorm == Transform

SpecNorm == InitNorm /\ [][NextNorm]_vars

(* ------------------------------ the claims ----------------------------- *)

GenId(r) == get(r, "generated_internal_id")

\* the truthy generated identifiers that occur in a sequence of awards
TruthyIds(s) == { GenId(s[i]) : i \in {j \in 1..Len(s) : Truthy(GenId(s[j]))} }

IdsOf(rows) == { rows[i].GENERATED_INTERNAL_ID : i \in 1..Len(rows) }

RowsWith(rows, id) == { i \in 1..Len(rows) : rows[i].GENERATED_INTERNAL_ID = id }

UniqueIds(rows) ==
    \A i, j \in 1..Len(rows) :
        i # j => rows[i].GENERATED_INTERNAL_ID # rows[j].GENERATED_INTERNAL_ID

\* some identifier occurs twice in what was fetched
FetchedTwice ==
    \E i, j \in 1..Len(fetched) :
        i < j /\ Truthy(GenId(fetched[i])) /\ GenId(fetched[i]) = GenId(fetched[j])

\* C1: the table main builds, the table written to the local artifact and the
\* table handed to the warehouse load never hold two rows with the same
\* GENERATED_INTERNAL_ID, whatever the keyword fetches returned.
C1_OutputIdsUnique ==
    /\ UniqueIds(df.rows)
    /\ UniqueIds(csv.rows)
    /\ UniqueIds(loaded.rows)

\* a run that fetched the same award more than once and handed a table of
\* two rows to the artifact and to the load
C1_Witness ==
    /\ loaded.made /\ csv.made
    /\ Len(loaded.rows) = 2
    /\ FetchedTwice

\* C2: at the end of main a connection that connect_snowflake returned has
\* been closed, after a successful load and after a load that raised.
C2_ConnectionReleased ==
    (pc = "done" /\ conn \in {"open", "closed"}) => conn = "closed"

\* C3: when there is at least one normalized row, the artifact holds the full
\* table before the connection is attempted and until the end of the run, and
\* a failed connection or load prints the artifact path.
C3_ArtifactBeforeLoad ==
    /\ (df.made /\ all_contracts # <<>>) => Len(df.rows) >= 1
    /\ (conn # "none" \/ loaded.made) =>
            (csv.made /\ Len(csv.rows) >= 1 /\ csv.rows = df.rows)
    /\ (pc = "done" /\ df.made) =>
            (csv.made /\ csv.rows = transform_contracts(all_contracts))
    /\ (pc = "done" /\ df.made /\ conn # "closed") =>
            \E i \in 1..Len(log) : log[i] = Line("Data saved to CSV: ", csv_path)

\* the connection failed after a table of two rows was normalized
C3_Witness ==
    /\ pc = "done"
    /\ conn = "failed"
    /\ Len(df.rows) = 2
    /\ csv.rows = df.rows

FetchFailed(k) == iters[k].kind \in FailKinds

\* C4: the step that processes a failed fetch issues exactly one request for
\* its keyword, adds no record, leaves the aggregate and the seen set as they
\* were and moves on to the next keyword; no keyword is ever requested twice
\* and the keywords are requested in order.
C4_FetchFailureIsolated ==
    [][ /\ (\A k \in 1..Len(SEARCH_KEYWORDS) :
              /\ requests'[k] <= 1
              /\ (requests'[k] = 1) <=> (k <= Len(iters')))
        /\ (Len(iters') > Len(iters) /\ iters'[Len(iters')].kind \in FailKinds) =>
              /\ pc' # "crashed"
              /\ requests'[idx] = requests[idx] + 1
              /\ iters'[Len(iters')].found = 0
              /\ iters'[Len(iters')].new = 0
              /\ all_contracts' = all_contracts
              /\ seen_ids' = seen_ids
              /\ idx' = idx + 1
              /\ pc' = IF idx < Len(SEARCH_KEYWORDS) THEN "loop" ELSE "summary"
      ]_vars

\* the first keyword's fetch failed and the next keyword's batch of two
\* awards was fetched and aggregated
C4_Witness ==
    /\ Len(iters) >= 2
    /\ FetchFailed(1)
    /\ iters[2].found = 2
    /\ iters[2].new = 2
    /\ Len(all_contracts) = 2

MalformedKinds == {"results_absent", "results_null", "results_number",
                   "results_bad_elements"}

\* C5: a decoded response whose results entry is absent or malformed counts
\* as zero results: it adds no record and the run goes on to the next keyword
\* without an uncaught error.
C5_MalformedIsZeroResults ==
    \A k \in 1..Len(iters) :
        iters[k].kind \in MalformedKinds =>
            /\ iters[k].new = 0
            /\ ~(pc = "crashed" /\ k = Len(iters))

\* C6: the identifiers of the final table are exactly the truthy identifiers
\* of all fetched batches, each in exactly one row; the same holds for the
\* artifact and for the table handed to the load.
C6_NoAwardLost ==
    \A t \in {df, csv, loaded} :
        t.made =>
            /\ IdsOf(t.rows) = TruthyIds(fetched)
            /\ \A id \in TruthyIds(fetched) : Cardinality(RowsWith(t.rows, id)) = 1

\* both awards were fetched, one of them twice and next to a record without
\* identifier, and the table was handed to the load
C6_Witness ==
    /\ loaded.made
    /\ Cardinality(TruthyIds(fetched)) = 2
    /\ FetchedTwice
    /\ \E i \in 1..Len(fetched) : ~Truthy(GenId(fetched[i]))

\* C7: with an empty aggregate after the loop the run prints "No contracts
\* found!" and ends: no table, no artifact, no connection, no load.
C7_EmptyEndsEarly ==
    (pc \notin {"loop", "crashed"} /\ all_contracts = <<>>) =>
        /\ pc \in {"summary", "done"}
        /\ ~df.made /\ ~csv.made /\ ~loaded.made
        /\ conn = "none"
        /\ pc = "done" => log = << Line("No contracts found!", "") >>

\* the run ended early although records were fetched: none had an identifier
C7_Witness ==
    /\ pc = "done"
    /\ all_contracts = <<>>
    /\ fetched # <<>>
    /\ \E k \in 1..Len(iters) : FetchFailed(k)

RECURSIVE SumFound(_, _)
SumFound(it, k) == IF k = 0 THEN 0 ELSE it[k].found + SumFound(it, k - 1)

\* C8: the records found over all keywords are at least the records held after
\* aggregation, which are at least the rows of the normalized table; and each
\* keyword's new count is at most its found count.
C8_MonotoneCounts ==
    /\ SumFound(iters, Len(iters)) >= Len(all_contracts)
    /\ df.made => Len(all_contracts) >= Len(df.rows)
    /\ \A k \in 1..Len(iters) : iters[k].new <= iters[k].found

\* four records were fetched, two kept and normalized
C8_Witness ==
    /\ df.made
    /\ SumFound(iters, Len(iters)) = 4
    /\ Len(all_contracts) = 2
    /\ Len(df.rows) = 2
    /\ \E k \in 1..Len(iters) : iters[k].new < iters[k].found

RawAmount(r) == get(r, "Award Amount")

\* C9 as stated: every normalized AWARD_AMOUNT is a non-negative number, and
\* it is 0 when the raw value is absent, null or zero-equivalent.
C9_AmountNonNegative ==
    df.made =>
        \A i \in 1..Len(df.rows) :
            /\ df.rows[i].AWARD_AMOUNT.t = "num"
            /\ df.rows[i].AWARD_AMOUNT.n >= 0
            /\ ~Truthy(RawAmount(all_contracts[i])) =>
                    df.rows[i].AWARD_AMOUNT = Num(0)

\* C9 amended: AWARD_AMOUNT is 0 when the raw value is absent, null or
\* zero-equivalent and is the raw value otherwise, so it is non-negative
\* exactly when the raw value is not a negative number.
C9_AmountDefaultOrRaw ==
    df.made =>
        /\ Len(df.rows) = Len(all_contracts)
        /\ \A i \in 1..Len(df.rows) :
            LET raw == RawAmount(all_contracts[i])
                amount == df.rows[i].AWARD_AMOUNT
            IN  /\ df.rows[i].GENERATED_INTERNAL_ID = GenId(all_contracts[i])
                /\ amount.t = "num"
                /\ ~Truthy(raw) => amount = Num(0)
                /\ Truthy(raw) => amount = raw
                /\ (amount.n >= 0) <=> ~(raw.t = "num" /\ raw.n < 0)

\* a table with a negative amount passed through and an absent one defaulted
C9_Witness ==
    /\ df.made
    /\ Len(df.rows) = 2
    /\ df.rows[1].AWARD_AMOUNT = Num(-5)
    /\ "Award Amount" \notin DOMAIN all_contracts[2]
    /\ df.rows[2].AWARD_AMOUNT = Num(0)

\* the awards of s whose identifier is truthy and occurs at no earlier position
RECURSIVE FirstOccurrences(_, _)
FirstOccurrences(s, n) ==
    IF n = 0 THEN <<>>
    ELSE IF /\ Truthy(GenId(s[n]))
            /\ \A j \in 1..(n - 1) : GenId(s[j]) # GenId(s[n])
         THEN Append(FirstOccurrences(s, n - 1), s[n])
         ELSE FirstOccurrences(s, n - 1)

\* C10: all_contracts is the concatenation of the batches in keyword order
\* restricted to the first occurrence of each truthy identifier, and seen_ids
\* holds exactly the identifiers of the kept records.
C10_FirstOccurrenceOrder ==
    pc # "crashed" =>
        /\ all_contracts = FirstOccurrences(fetched, Len(fetched))
        /\ seen_ids = TruthyIds(fetched)

\* two keywords returned the same award under different payloads: the earlier
\* keyword's record is kept, in batch order, the record without identifier is
\* dropped
C10_Witness ==
    /\ pc = "summary"
    /\ Len(fetched) = 4
    /\ fetched[1] = Award(Str("A"), Str("X"), Num(5))
    /\ fetched[2] = Award(Missing, Str("Z"), Num(0))
    /\ fetched[3] = Award(Str("B"), Str("X"), Missing)
    /\ fetched[4] = Award(Str("A"), Str("Y"), Num(-5))
    /\ all_contracts = << fetched[1], fetched[3] >>

====
